---- MODULE Spec2Model ----
(***************************************************************************)
(* A model of sajjadakbariai/scraper: configs/settings.py (the pydantic    *)
(* Settings class and its validators, SensitiveDataFilter, load_settings   *)
(* and the module-level load) and db/database.py (get_db).                 *)
(*                                                                         *)
(* Strings that the code scans or concatenates are sequences of one-       *)
(* character strings. Optional[str] values are records: None, or Some(s).  *)
(* The environment tag is only ever compared for equality, so it is kept   *)
(* as an atomic string.                                                    *)
(***************************************************************************)
EXTENDS Integers, Sequences, FiniteSets, TLC

VARIABLES
    settings,    \* settings.py:54 the module global `settings`
    nfilters,    \* number of SensitiveDataFilter objects attached to `logger`
    rootLevel,   \* level of the root logger (logging.basicConfig, line 96)
    constructed, \* number of Settings instances constructed so far
    pc,          \* position of the module body of settings.py
    calls,       \* number of load_settings calls made after the import
    last,        \* the last load_settings call: its environment and outcome
    record,      \* the LogRecord a SensitiveDataFilter is working on
    record0,     \* that record as the logging call created it
    prev,        \* that record before the last filter pass
    passes,      \* filter passes applied to the record
    filterExc,   \* exception raised by the last filter pass
    dbpc,        \* per caller: position in `with get_db() as db:`
    session,     \* per caller: the session SessionLocal() returned
    closeCalls,  \* per session: number of close() calls
    events,      \* per caller: what get_db did, in order, in the current use
    uses,        \* per caller: number of get_db uses started
    nextSession  \* the next session the factory hands out

vars == <<settings, nfilters, rootLevel, constructed, pc, calls, last,
          record, record0, prev, passes, filterExc,
          dbpc, session, closeCalls, events, uses, nextSession>>

loadVars == <<settings, nfilters, rootLevel, constructed, pc, calls, last>>
filterVars == <<record, record0, prev, passes, filterExc>>
dbVars == <<dbpc, session, closeCalls, events, uses, nextSession>>

----------------------------------------------------------------------------
(* Bounds of the model. *)

\* later load_settings calls explored after the module import
MaxCalls == 1
\* longest secret value drawn for the filter
MaxSecretLen == 2
\* longest log message template drawn for the filter
MaxMsgLen == 2
\* most positional arguments of a log record
MaxArgs == 1
\* most SensitiveDataFilter objects attached when a record is filtered
MaxFilters == 2
\* a filter pass is explored only on a rendered message at most this long
MaxFilterInput == 30
\* callers using get_db concurrently
NumCallers == 2
\* uses of get_db per caller
MaxUses == 2

----------------------------------------------------------------------------
(* Strings. *)

None == [isNone |-> TRUE, s |-> <<>>]
Some(s) == [isNone |-> FALSE, s |-> s]

\* Python truthiness of an Optional[str]: None and "" are falsy
Truthy(v) == ~v.isNone /\ v.s # <<>>

TOKEN_PLACEHOLDER == <<"*","*","*","T","E","L","E","G","R","A","M","_","B","O","T","_","T","O","K","E","N","*","*","*">>
KEY_PLACEHOLDER == <<"*","*","*","S","C","R","A","P","E","R","_","A","P","I","_","K","E","Y","*","*","*">>
DefaultApiDomain == <<"a","p","i",".","s","e","o","k","a","r",".","c","l","i","c","k">>
HttpsPrefix == <<"h","t","t","p","s",":","/","/">>
ScraperSuffix == <<"/","k","e","y","w","o","r","d","-","s","c","r","a","p","e","r">>
SuggestionsSuffix == <<"/","k","e","y","w","o","r","d","-","s","u","g","g","e","s","t","i","o","n","s">>
TrendsSuffix == <<"/","k","e","y","w","o","r","d","-","t","r","e","n","d","s">>

\* the characters messages, arguments and secrets are drawn from
Alphabet == {"a", "*"}

RECURSIVE StringsUpTo(_, _)
StringsUpTo(cs, n) ==
    IF n = 0 THEN {<<>>}
    ELSE LET shorter == StringsUpTo(cs, n - 1)
         IN shorter \cup {Append(s, c) : s \in shorter, c \in cs}

----------------------------------------------------------------------------
(* Settings: pydantic (v1) BaseSettings. Fields are validated in the order *)
(* the class defines them; a validator sees in `values` only the fields    *)
(* validated before its own.                                               *)

FieldOrder ==
    <<"api_domain", "telegram_bot_token", "scraper_api_key", "env",
      "keyword_scraper_api_url", "keyword_suggestions_api_url", "trends_api_url">>

EnvUnset == "<unset>"

\* the class defaults (lines 17, 21, 22, 26-29)
FieldDefault(name, environ) ==
    CASE name = "api_domain" -> Some(DefaultApiDomain)
      [] name = "env" -> IF environ.ENV = EnvUnset THEN "development" ELSE environ.ENV
      [] OTHER -> None

\* the value the environment supplies for a field (None: not supplied)
EnvVar(name, environ) ==
    CASE name = "api_domain" -> environ.API_DOMAIN
      [] name = "telegram_bot_token" -> environ.TELEGRAM_BOT_TOKEN
      [] name = "scraper_api_key" -> environ.SCRAPER_API_KEY
      [] name = "keyword_scraper_api_url" -> environ.KEYWORD_SCRAPER_API_URL
      [] name = "keyword_suggestions_api_url" -> environ.KEYWORD_SUGGESTIONS_API_URL
      [] name = "trends_api_url" -> environ.TRENDS_API_URL
      [] OTHER -> None

Supplied(name, environ) ==
    IF name = "env" THEN environ.ENV # EnvUnset ELSE ~EnvVar(name, environ).isNone

\* dict.get: None for a key the dict does not hold
DictGet(values, key) == IF key \in DOMAIN values THEN values[key] ELSE None

\* what a validator does: return a value, raise ValueError (collected by
\* pydantic into the ValidationError) or raise something pydantic lets through
Returns(v) == [kind |-> "value", v |-> v]
Raises(exc) == [kind |-> exc, v |-> None]

\* lines 36-40
sensitive_values_must_be_set_in_production(v, values) ==
    IF "env" \in DOMAIN values /\ values["env"] = "production" /\ ~Truthy(v)
    THEN Raises("ValueError")
    ELSE Returns(v)

\* lines 46-50: the dict of the three URLs built from api_domain
ApiUrls(api_domain) ==
    [keyword_scraper_api_url |-> HttpsPrefix \o api_domain \o ScraperSuffix,
     keyword_suggestions_api_url |-> HttpsPrefix \o api_domain \o SuggestionsSuffix,
     trends_api_url |-> HttpsPrefix \o api_domain \o TrendsSuffix]

\* the attributes a Python dict has that the code reads off `values`
DictAttributes == {"get"}

\* lines 42-51: the dict of URLs is indexed with values.field_name, and
\* `values` is a plain dict: reading the attribute raises AttributeError,
\* which pydantic does not collect
set_api_urls(v, values) ==
    LET api_domain == DictGet(values, "api_domain")
    IN IF Truthy(api_domain)
       THEN IF "field_name" \in DictAttributes
            THEN Returns(Some(ApiUrls(api_domain.s)[values["field_name"]]))
            ELSE Raises("AttributeError")
       ELSE Returns(v)

\* the validators of a field, and whether they run on a value not supplied
HasValidator(name) == name # "api_domain" /\ name # "env"
ValidateAlways(name) ==
    name \in {"keyword_scraper_api_url", "keyword_suggestions_api_url", "trends_api_url"}

RunValidator(name, v, values) ==
    IF name \in {"telegram_bot_token", "scraper_api_key"}
    THEN sensitive_values_must_be_set_in_production(v, values)
    ELSE set_api_urls(v, values)

NoObj ==
    [id |-> 0, api_domain |-> None, telegram_bot_token |-> None,
     scraper_api_key |-> None, env |-> "", keyword_scraper_api_url |-> None,
     keyword_suggestions_api_url |-> None, trends_api_url |-> None]

\* pydantic's validate_model: one field after the other
RECURSIVE ValidateFrom(_, _, _, _)
ValidateFrom(i, values, errors, environ) ==
    IF i > Len(FieldOrder)
    THEN IF errors # {}
         THEN [ok |-> FALSE, exc |-> "ValidationError", errors |-> errors, obj |-> NoObj]
         ELSE [ok |-> TRUE, exc |-> "none", errors |-> {},
               obj |-> [f \in DOMAIN NoObj |-> IF f = "id" THEN 0 ELSE values[f]]]
    ELSE LET name == FieldOrder[i]
             supplied == Supplied(name, environ)
             raw == IF name = "env" THEN FieldDefault(name, environ)
                    ELSE IF supplied THEN EnvVar(name, environ)
                    ELSE FieldDefault(name, environ)
             with == [f \in DOMAIN values \cup {name} |->
                        IF f = name THEN raw ELSE values[f]]
         IN IF ~HasValidator(name) \/ (~supplied /\ ~ValidateAlways(name))
            THEN ValidateFrom(i + 1, with, errors, environ)
            ELSE LET r == RunValidator(name, raw, values)
                 IN CASE r.kind = "value" ->
                           ValidateFrom(i + 1,
                               [f \in DOMAIN values \cup {name} |->
                                   IF f = name THEN r.v ELSE values[f]],
                               errors, environ)
                      [] r.kind = "ValueError" ->
                           ValidateFrom(i + 1, values, errors \cup {name}, environ)
                      [] OTHER ->
                           [ok |-> FALSE, exc |-> r.kind, errors |-> {}, obj |-> NoObj]

\* Settings(): construct from the environment
Settings(environ) == ValidateFrom(1, <<>>, {}, environ)

----------------------------------------------------------------------------
(* load_settings and the module body of settings.py. *)

EnvNames == {EnvUnset, "production", "staging"}
LoadSecrets == {None, Some(<<>>), Some(<<"a">>)}
LoadDomains == {None, Some(<<>>), Some(<<"d">>)}
LoadUrls == {None, Some(<<"u">>)}

MkEnviron(e, t, k, d, u) ==
    [ENV |-> e, TELEGRAM_BOT_TOKEN |-> t, SCRAPER_API_KEY |-> k, API_DOMAIN |-> d,
     KEYWORD_SCRAPER_API_URL |-> u, KEYWORD_SUGGESTIONS_API_URL |-> u,
     TRENDS_API_URL |-> u]

\* the environments load_settings is run in
LoadEnvirons ==
    {MkEnviron(e, t, k, d, u) :
        e \in EnvNames, t \in LoadSecrets, k \in LoadSecrets,
        d \in LoadDomains, u \in LoadUrls}

NoEnviron == MkEnviron(EnvUnset, None, None, None, None)

\* one emitted log line: its level, what it reports, and the number of
\* SensitiveDataFilter passes it went through
Line(level, key, n) == [level |-> level, key |-> key, passes |-> n]

\* lines 102-113
SummaryKeys ==
    <<"App Name", "Version", "Domain Name", "API Domain", "API Port",
      "Database URL", "Debug Mode", "Allowed Origins", "Environment",
      "Keyword Scraper API URL", "Keyword Suggestions API URL", "Trends API URL">>

\* lines 116-120: the error lines for secrets missing in production
MissingSecretLines(obj, n) ==
    IF obj.env = "production"
    THEN (IF ~Truthy(obj.telegram_bot_token)
          THEN <<Line("ERROR", "Telegram bot token is missing", n)>> ELSE <<>>)
         \o (IF ~Truthy(obj.scraper_api_key)
             THEN <<Line("ERROR", "Scraper API key is missing", n)>> ELSE <<>>)
    ELSE <<>>

\* line 96: logging.basicConfig changes the root logger only the first time
BasicConfig(level, lvl) == IF level = "unconfigured" THEN lvl ELSE level

\* line 99: logger.addFilter(SensitiveDataFilter()), a new object every time
AddFilterOnce(n) == IF n = 0 THEN 1 ELSE n
AddFilter(n) == n + 1

\* lines 90-92: log the failure and re-raise it
LoadFailedResetsGlobal(environ, r) ==
    /\ last' = [environ |-> environ, outcome |-> "raised", exc |-> r.exc,
                errors |-> r.errors, obj |-> NoObj,
                lines |-> <<Line("ERROR", "Failed to load settings", nfilters)>>]
    /\ settings' = NoObj
    /\ UNCHANGED <<nfilters, rootLevel, constructed>>
LoadFailed(environ, r) ==
    /\ last' = [environ |-> environ, outcome |-> "raised", exc |-> r.exc,
                errors |-> r.errors, obj |-> NoObj,
                lines |-> <<Line("ERROR", "Failed to load settings", nfilters)>>]
    /\ UNCHANGED <<settings, nfilters, rootLevel, constructed>>

\* lines 89, 94-122: assign the global, configure logging, attach the filter,
\* log the summary and the production diagnostics, return the instance
LoadSucceeded(environ, r) ==
    LET obj == [r.obj EXCEPT !.id = constructed + 1]
        n == AddFilter(nfilters)
    IN /\ settings' = obj
       /\ constructed' = constructed + 1
       /\ rootLevel' = BasicConfig(rootLevel,
                           IF obj.env = "development" THEN "DEBUG" ELSE "INFO")
       /\ nfilters' = n
       /\ last' = [environ |-> environ, outcome |-> "returned", exc |-> "none",
                   errors |-> {}, obj |-> obj,
                   lines |-> [i \in 1..Len(SummaryKeys) |->
                                 Line("INFO", SummaryKeys[i], n)]
                             \o MissingSecretLines(obj, n)]

\* lines 80-122
load_settings(environ) ==
    LET r == Settings(environ)
    IN IF r.ok THEN LoadSucceeded(environ, r) ELSE LoadFailed(environ, r)

\* line 126: the module body runs load_settings; if it raises, the import fails
ImportModule ==
    /\ pc = "init"
    /\ \E environ \in LoadEnvirons : load_settings(environ)
    /\ pc' = IF last'.outcome = "returned" THEN "imported" ELSE "import_failed"
    /\ UNCHANGED <<calls, filterVars, dbVars>>

\* a later call of load_settings by code that imported the module
CallLoadSettings ==
    /\ pc = "imported"
    /\ calls < MaxCalls
    /\ \E environ \in LoadEnvirons : load_settings(environ)
    /\ calls' = calls + 1
    /\ UNCHANGED <<pc, filterVars, dbVars>>

----------------------------------------------------------------------------
(* SensitiveDataFilter. *)

\* str.replace(old, new) with old = "": new goes before every character and
\* after the last one
ReplaceEmpty(s, new) ==
    LET k == Len(new)
        n == Len(s)
    IN [i \in 1..((n + 1) * k + n) |->
          LET block == (i - 1) \div (k + 1)
              off == (i - 1) % (k + 1)
          IN IF off < k THEN new[off + 1] ELSE s[block + 1]]

\* the first place at or after pos where old occurs in s (0: nowhere)
Find(s, old, pos) ==
    LET hits == {i \in pos..(Len(s) - Len(old) + 1) :
                    SubSeq(s, i, i + Len(old) - 1) = old}
    IN IF hits = {} THEN 0
       ELSE CHOOSE i \in hits : \A j \in hits : i <= j

RECURSIVE ReplaceFrom(_, _, _, _)
ReplaceFrom(s, old, new, pos) ==
    LET m == Find(s, old, pos)
    IN IF m = 0 THEN SubSeq(s, pos, Len(s))
       ELSE SubSeq(s, pos, m - 1) \o new \o ReplaceFrom(s, old, new, m + Len(old))

\* str.replace(old, new): every occurrence, left to right, not overlapping
Replace(s, old, new) ==
    IF old = <<>> THEN ReplaceEmpty(s, new) ELSE ReplaceFrom(s, old, new, 1)

\* a positional argument of a log record: a str, or something else (an int)
StrArg(s) == [isStr |-> TRUE, s |-> s]
IntArg(digits) == [isStr |-> FALSE, s |-> digits]

\* the template token that stands for a %s conversion
Conv == "%s"

NoRecord == [msg |-> <<>>, args |-> <<>>]

RECURSIVE Format(_, _)
\* msg % args: every %s takes the next argument; too few or too many
\* arguments raise TypeError
Format(msg, args) ==
    IF msg = <<>>
    THEN IF args = <<>> THEN [exc |-> "none", s |-> <<>>]
         ELSE [exc |-> "TypeError", s |-> <<>>]
    ELSE IF Head(msg) = Conv
         THEN IF args = <<>> THEN [exc |-> "TypeError", s |-> <<>>]
              ELSE LET rest == Format(Tail(msg), Tail(args))
                   IN [exc |-> rest.exc, s |-> Head(args).s \o rest.s]
         ELSE LET rest == Format(Tail(msg), args)
              IN [exc |-> rest.exc, s |-> <<Head(msg)>> \o rest.s]

\* LogRecord.getMessage (line 62): msg, formatted with args if there are any
getMessage(rec) ==
    IF rec.args = <<>> THEN [exc |-> "none", s |-> rec.msg]
    ELSE Format(rec.msg, rec.args)

\* lines 64-65, 71-72: str(secret) if secret else ""
SecretOrEmpty(v) == IF Truthy(v) THEN v.s ELSE <<>>

\* lines 64-65 and 71-72: the two replacements, the bot token first
Redact(text, st) ==
    Replace(Replace(text, SecretOrEmpty(st.telegram_bot_token), TOKEN_PLACEHOLDER),
            SecretOrEmpty(st.scraper_api_key), KEY_PLACEHOLDER)

\* lines 61-77: the record after filter(record), or the exception raised
FilterRecord(rec, st) ==
    LET m == getMessage(rec)
    IN IF m.exc # "none" THEN [exc |-> m.exc, rec |-> rec]
       ELSE IF st = NoObj THEN [exc |-> "none", rec |-> [rec EXCEPT !.msg = m.s]]
       ELSE [exc |-> "none",
             rec |-> [msg |-> Redact(m.s, st),
                      args |-> [i \in DOMAIN rec.args |->
                                  IF rec.args[i].isStr
                                  THEN StrArg(Redact(rec.args[i].s, st))
                                  ELSE rec.args[i]]]]

\* Logger.filter: the next attached filter works on the record; an exception
\* ends the logging call
Filter ==
    /\ passes < nfilters
    /\ filterExc = "none"
    /\ Len(record.msg) <= MaxFilterInput
    /\ LET r == FilterRecord(record, settings)
       IN /\ record' = r.rec
          /\ filterExc' = r.exc
    /\ prev' = record
    /\ passes' = passes + 1
    /\ UNCHANGED <<record0, loadVars, dbVars>>


InitFilterIdle ==
    /\ record = NoRecord /\ record0 = NoRecord /\ prev = NoRecord
    /\ passes = 0 /\ filterExc = "none"

----------------------------------------------------------------------------
(* get_db (db/database.py). *)

Callers == 1..NumCallers

\* line 21: SessionLocal() hands out a new session, or the factory raises
\* and there is no session: the try block is never entered
Enter(c) ==
    /\ dbpc[c] \in {"idle", "done"}
    /\ uses[c] < MaxUses
    /\ uses' = [uses EXCEPT ![c] = @ + 1]
    /\ \/ /\ session' = [session EXCEPT ![c] = nextSession]
          /\ nextSession' = nextSession + 1
          /\ closeCalls' = Append(closeCalls, 0)
          /\ events' = [events EXCEPT ![c] = <<"SessionLocal", "yield">>]
          /\ dbpc' = [dbpc EXCEPT ![c] = "in_block"]
       \/ /\ session' = [session EXCEPT ![c] = 0]
          /\ events' = [events EXCEPT ![c] = <<"SessionLocal", "raise ConnectionFailure">>]
          /\ dbpc' = [dbpc EXCEPT ![c] = "done"]
          /\ UNCHANGED <<nextSession, closeCalls>>
    /\ UNCHANGED <<loadVars, filterVars>>

\* line 25: db.close()
db_close(cc, sid) == [cc EXCEPT ![sid] = @ + 1]

\* lines 22-25: the generator is resumed (exc = "none") or has exc thrown
\* into it at the yield; the finally clause runs, then the generator ends
\* or the exception goes on to the caller
ExitScopeWithoutFinally(c, exc) ==
    /\ closeCalls' = IF exc = "none" THEN db_close(closeCalls, session[c]) ELSE closeCalls
    /\ events' = [events EXCEPT ![c] =
                     @ \o (IF exc = "none" THEN <<"block returned", "close", "return">>
                           ELSE <<"block raised", "raise " \o exc>>)]
    /\ dbpc' = [dbpc EXCEPT ![c] = "done"]
    /\ UNCHANGED <<session, uses, nextSession, loadVars, filterVars>>
ExitScope(c, exc) ==
    /\ closeCalls' = db_close(closeCalls, session[c])
    /\ events' = [events EXCEPT ![c] =
                     @ \o (IF exc = "none" THEN <<"block returned", "close", "return">>
                           ELSE <<"block raised", "close", "raise " \o exc>>)]
    /\ dbpc' = [dbpc EXCEPT ![c] = "done"]
    /\ UNCHANGED <<session, uses, nextSession, loadVars, filterVars>>

\* the caller's with-block runs to its end
BlockCompletes(c) == dbpc[c] = "in_block" /\ ExitScope(c, "none")

\* the caller's with-block raises
BlockRaises(c) == dbpc[c] = "in_block" /\ ExitScope(c, "BlockError")


InitDbIdle ==
    /\ dbpc = [c \in Callers |-> "idle"]
    /\ session = [c \in Callers |-> 0]
    /\ closeCalls = <<>>
    /\ events = [c \in Callers |-> <<>>]
    /\ uses = [c \in Callers |-> 0]
    /\ nextSession = 1

\* lines 54-55: the module state before line 126 runs
Init ==
    /\ settings = NoObj
    /\ nfilters = 0
    /\ rootLevel = "unconfigured"
    /\ constructed = 0
    /\ pc = "init"
    /\ calls = 0
    /\ last = [environ |-> NoEnviron, outcome |-> "none", exc |-> "none",
               errors |-> {}, obj |-> NoObj, lines |-> <<>>]
    /\ InitFilterIdle
    /\ InitDbIdle

Next == ImportModule \/ CallLoadSettings

Spec == Init /\ [][Next]_vars

\* the secrets, message templates and arguments the filter is run on
FilterSecrets == {None} \cup {Some(s) : s \in StringsUpTo(Alphabet, MaxSecretLen)}
FilterEnvirons ==
    {MkEnviron(e, t, k, Some(<<>>), None) :
        e \in {EnvUnset, "production"}, t \in FilterSecrets, k \in FilterSecrets}
ArgValues == {StrArg(s) : s \in StringsUpTo(Alphabet, 1)} \cup {IntArg(<<"7">>)}
RECURSIVE ArgTuples(_)
ArgTuples(n) ==
    IF n = 0 THEN {<<>>}
    ELSE LET shorter == ArgTuples(n - 1)
         IN shorter \cup {Append(t, a) : t \in shorter, a \in ArgValues}
Records ==
    {[msg |-> m, args |-> a] :
        m \in StringsUpTo(Alphabet \cup {Conv}, MaxMsgLen), a \in ArgTuples(MaxArgs)}

\* the module after n successful load_settings calls in one environment,
\* and a record that a logging call hands to the logger's filters
InitFilter ==
    /\ \E environ \in FilterEnvirons, n \in 1..MaxFilters :
          LET r == Settings(environ)
              obj == [r.obj EXCEPT !.id = n]
          IN /\ r.ok
             /\ settings = obj
             /\ nfilters = n
             /\ constructed = n
             /\ calls = n - 1
             /\ rootLevel = IF obj.env = "development" THEN "DEBUG" ELSE "INFO"
             /\ last = [environ |-> environ, outcome |-> "returned", exc |-> "none",
                        errors |-> {}, obj |-> obj,
                        lines |-> [i \in 1..Len(SummaryKeys) |->
                                      Line("INFO", SummaryKeys[i], n)]
                                  \o MissingSecretLines(obj, n)]
    /\ pc = "imported"
    /\ record \in Records
    /\ record0 = record
    /\ prev = record
    /\ passes = 0
    /\ filterExc = "none"
    /\ InitDbIdle

NextFilter == Filter

\* the module is imported (database.py line 4 needs `settings`) and the
\* callers have not used get_db yet
\* the environment database.py is imported in
DbEnvirons == {MkEnviron(EnvUnset, None, None, Some(<<>>), None)}

InitDb ==
    /\ \E environ \in DbEnvirons :
          LET r == Settings(environ)
              obj == [r.obj EXCEPT !.id = 1]
          IN /\ r.ok
             /\ settings = obj
             /\ rootLevel = IF obj.env = "development" THEN "DEBUG" ELSE "INFO"
             /\ last = [environ |-> environ, outcome |-> "returned", exc |-> "none",
                        errors |-> {}, obj |-> obj,
                        lines |-> [i \in 1..Len(SummaryKeys) |->
                                      Line("INFO", SummaryKeys[i], 1)]
                                  \o MissingSecretLines(obj, 1)]
    /\ nfilters = 1
    /\ constructed = 1
    /\ calls = 0
    /\ pc = "imported"
    /\ InitFilterIdle
    /\ InitDbIdle

NextDb == \E c \in Callers : Enter(c) \/ BlockCompletes(c) \/ BlockRaises(c)

SpecDb == InitDb /\ [][NextDb]_vars

SpecFilter == InitFilter /\ [][NextFilter]_vars

----------------------------------------------------------------------------
(* Claims about Settings and load_settings, checked under Spec. *)

SecretFields == {"telegram_bot_token", "scraper_api_key"}
UrlFields == {"keyword_scraper_api_url", "keyword_suggestions_api_url", "trends_api_url"}

\* the last call's environment tag, its missing secrets and its api_domain
LastEnv == FieldDefault("env", last.environ)
LastMissing == {f \in SecretFields : ~Truthy(EnvVar(f, last.environ))}
LastDomain ==
    IF Supplied("api_domain", last.environ)
    THEN EnvVar("api_domain", last.environ)
    ELSE FieldDefault("api_domain", last.environ)
Called == last.outcome # "none"

MissingKey(f) ==
    IF f = "telegram_bot_token" THEN "Telegram bot token is missing"
    ELSE "Scraper API key is missing"

\* C1: in production, constructing Settings fails with the missing-secret
\* validation error, naming the missing fields, if and only if at least one
\* of the two secrets is empty or absent.
C1_ProductionFailsIffSecretMissing ==
    (Called /\ LastEnv = "production") =>
        /\ (last.exc = "ValidationError") <=> (LastMissing # {})
        /\ last.exc = "ValidationError" => last.errors = LastMissing

\* C2: outside production, constructing Settings succeeds whatever the
\* secrets and whatever the api_domain.
C2_NonProductionSucceeds ==
    (Called /\ LastEnv # "production") => last.outcome = "returned"

\* C3: with a non-empty api_domain D the constructed Settings has the three
\* URLs https://D/<suffix>, whatever the environment supplies for them; with
\* an empty api_domain the three fields keep what the environment supplied.
C3_UrlsDerivedFromDomain ==
    Called =>
        /\ last.outcome = "returned"
        /\ \A f \in UrlFields :
              last.obj[f] = IF Truthy(LastDomain)
                            THEN Some(ApiUrls(LastDomain.s)[f])
                            ELSE EnvVar(f, last.environ)

C8_FailedLoadLeavesGlobal ==
    [][((pc' # pc \/ calls' # calls) /\ ~Settings(last'.environ).ok) =>
          /\ last'.outcome = "raised"
          /\ last'.exc = Settings(last'.environ).exc
          /\ settings' = settings
          /\ nfilters' = nfilters
          /\ \A i \in DOMAIN last'.lines : last'.lines[i].level # "INFO"]_vars

C8_Witness ==
    /\ pc = "imported" /\ calls = 1 /\ last.outcome = "raised"
    /\ settings.id = 1 /\ nfilters = 1

\* C9: a load_settings run in production with a secret missing never returns
\* a Settings instance, and has emitted one error line per missing secret.
C9_ProductionMissingNeverReturns ==
    (Called /\ LastEnv = "production" /\ LastMissing # {}) =>
        /\ last.outcome = "raised"
        /\ \A f \in LastMissing :
              Cardinality({i \in DOMAIN last.lines :
                              /\ last.lines[i].level = "ERROR"
                              /\ last.lines[i].key = MissingKey(f)}) = 1

----------------------------------------------------------------------------
(* Claims about SensitiveDataFilter, checked under SpecFilter. *)

RECURSIVE CountFrom(_, _, _)
CountFrom(s, sub, pos) ==
    LET m == Find(s, sub, pos)
    IN IF m = 0 THEN 0 ELSE 1 + CountFrom(s, sub, m + Len(sub))

\* occurrences of a non-empty sub in s, left to right, not overlapping
Count(s, sub) == CountFrom(s, sub, 1)

Placeholder(f) ==
    IF f = "telegram_bot_token" THEN TOKEN_PLACEHOLDER ELSE KEY_PLACEHOLDER

\* the message as the logging call rendered it
Rendered0 == getMessage(record0).s

FirstPassDone == passes = 1 /\ filterExc = "none"

\* C4: after filter, the message holds no occurrence of a non-empty secret
\* and as many of its placeholder as the message held of the secret.
C4_SecretReplacedByItsPlaceholder ==
    FirstPassDone =>
        \A f \in SecretFields :
            Truthy(settings[f]) =>
                /\ Count(record.msg, settings[f].s) = 0
                /\ Count(record.msg, Placeholder(f)) = Count(Rendered0, settings[f].s)

\* C5: an empty or unset secret is skipped: filter adds none of its
\* placeholders to the message or to a string argument, and with no secret
\* set the record passes through unchanged.
C5_EmptySecretSkipped ==
    FirstPassDone =>
        /\ \A f \in SecretFields :
              ~Truthy(settings[f]) =>
                  /\ Count(record.msg, Placeholder(f)) = Count(Rendered0, Placeholder(f))
                  /\ \A i \in DOMAIN record.args :
                        Count(record.args[i].s, Placeholder(f))
                            = Count(record0.args[i].s, Placeholder(f))
        /\ (\A f \in SecretFields : ~Truthy(settings[f])) =>
              /\ record.msg = Rendered0
              /\ record.args = record0.args

\* C10: a second filter pass leaves the message and the arguments as the
\* first pass left them.
C10_SecondPassChangesNothing ==
    passes = 2 => (filterExc = "none" /\ record = prev)

----------------------------------------------------------------------------
(* Claims about get_db, checked under SpecDb. *)

CountOf(seq, x) == Cardinality({i \in DOMAIN seq : seq[i] = x})

\* the caller holds a session that the current use of get_db produced
HasSession(c) == session[c] # 0 /\ Len(events[c]) >= 2 /\ events[c][2] = "yield"

\* C6: in every use of get_db that got a session, close is called on that
\* session exactly once when the scope exits, on the normal and on the
\* raising path, and a block's exception reaches the caller after the close.
C6_SessionClosedExactlyOnce ==
    \A c \in Callers :
        HasSession(c) =>
            /\ dbpc[c] = "in_block" => closeCalls[session[c]] = 0
            /\ dbpc[c] = "done" =>
                  /\ closeCalls[session[c]] = 1
                  /\ CountOf(events[c], "close") = 1
                  /\ events[c][3] = "block raised" =>
                        /\ events[c][Len(events[c])] = "raise BlockError"
                        /\ events[c][Len(events[c]) - 1] = "close"
                  /\ events[c][3] = "block returned" =>
                        events[c][Len(events[c])] = "return"

C6_Witness ==
    \E c \in Callers :
        /\ HasSession(c) /\ dbpc[c] = "done"
        /\ events[c][3] = "block raised"
        /\ closeCalls[session[c]] = 1

====
